---- MODULE Spec2Model ----
(***************************************************************************)
(* Geometry constraint engine of the bridge-design form                    *)
(* (frontend/src/types/index.ts: detectGeometryIssues, autoAdjustGeometry, *)
(* resolveGeometryChange) and the form component that drives it and the    *)
(* authoritative validation call (App: handleGeometryFieldChange,          *)
(* scheduleGeometryValidation, runGeometryValidation).                     *)
(*                                                                         *)
(* Numbers.  Every length held in a state variable is an integer number of *)
(* millimetres (1/1000 m), girder_count is a plain integer.  Inside the    *)
(* engine a JavaScript number is an exact fraction <<p, q>> with q > 0, so *)
(* that a division by the girder count or a halving is exact and           *)
(* Math.round / Math.floor are computed on the exact quotient (Math.round  *)
(* rounds a tie towards +Infinity).  The binary rounding error of IEEE     *)
(* doubles and the values NaN and Infinity are not modelled.               *)
(***************************************************************************)
EXTENDS Integers, Sequences, FiniteSets, TLC

\* ------------------------------------------------------------------ bounds
\* carriageway widths offered to the engine: CwAt(1) .. CwAt(MaxCwIndex + 1)
MaxCwIndex == 5
\* current-geometry grid and raw edit values offered to the engine
MaxGridIndex == 3
MaxValueIndex == 6
\* balanced current geometries (spacing, count) and edits offered to the engine
MaxBalancedIndex == 5
\* highlights: error keys offered, entries of one geometryErrors mapping
MaxErrorKeyIndex == 6
MaxErrorCount == 2
\* the form: edits offered to the popup, validateGeometry calls issued in a run
MaxEditIndex == 1
MaxRequests == 2

\* ------------------------------------------------- exact number arithmetic
\* a number is <<p, q>>, q > 0: p / q millimetres (or p / q girders)
Abs(x) == IF x < 0 THEN -x ELSE x
RInt(n) == <<n, 1>>
RAdd(a, b) == <<a[1] * b[2] + b[1] * a[2], a[2] * b[2]>>
RSub(a, b) == <<a[1] * b[2] - b[1] * a[2], a[2] * b[2]>>
\* a times the integer k, a divided by the integer k > 0
RTimes(k, a) == <<k * a[1], a[2]>>
ROver(a, k) == <<a[1], a[2] * k>>
\* a / b for b > 0 (a ratio of two lengths: a plain number)
RDiv(a, b) == <<a[1] * b[2], a[2] * b[1]>>
RLt(a, b) == a[1] * b[2] < b[1] * a[2]
RLe(a, b) == a[1] * b[2] <= b[1] * a[2]
\* mutant of RAbs: the sign is kept
RAbs_KeepsSign(a) == a
RAbs(a) == <<Abs(a[1]), a[2]>>
MathMax(a, b) == IF RLt(a, b) THEN b ELSE a
MathMin(a, b) == IF RLt(b, a) THEN b ELSE a
\* Math.max and Math.min of two integers
IntMax(a, b) == IF a < b THEN b ELSE a
IntMin(a, b) == IF b < a THEN b ELSE a
\* Math.floor and Math.round (round half towards +Infinity) as integers
MathFloor(a) == a[1] \div a[2]
\* mutant of MathRound: the fraction is cut off
MathRound_Truncates(a) == a[1] \div a[2]
MathRound(a) == (2 * a[1] + a[2]) \div (2 * a[2])
\* an integer-valued number as an integer
ToInt(a) == a[1] \div a[2]

\* ------------------------------------------------------ engine constants
\* 0.5 m, 0.5 m and 2 girders
MIN_OVERHANG == RInt(500)
MIN_SPACING == RInt(500)
MIN_GIRDER_COUNT == 2

\* mutant of clamp: the bounds are ignored
clamp_Unbounded(value, min, max) == value
clamp(value, min, max) == MathMax(min, MathMin(value, max))
\* Math.round(value * 10) / 10 and Math.round(value * 100) / 100 of a length
\* in metres: the nearest multiple of 100 mm, of 10 mm
roundToOneDecimal(value) == RInt(100 * MathRound(ROver(value, 100)))
roundToTwoDecimals(value) == RInt(10 * MathRound(ROver(value, 10)))

\* mutant of computeOverallWidth: no minimum width
computeOverallWidth_NoFloor(carriagewayWidth) ==
  roundToTwoDecimals(RAdd(RInt(carriagewayWidth), RInt(5000)))

computeOverallWidth(carriagewayWidth) ==
  LET minimumWidth == RAdd(RTimes(2, MIN_SPACING), RTimes(2, MIN_OVERHANG))
  IN  MathMax(roundToTwoDecimals(RAdd(RInt(carriagewayWidth), RInt(5000))), minimumWidth)

\* mutant of computeMaxGirders: the two overhangs are not reserved
computeMaxGirders_NoOverhangReserve(overallWidth) ==
  IntMax(MIN_GIRDER_COUNT, MathFloor(RDiv(overallWidth, MIN_SPACING)))

computeMaxGirders(overallWidth) ==
  IntMax(MIN_GIRDER_COUNT,
         MathFloor(RDiv(RSub(overallWidth, RTimes(2, MIN_OVERHANG)), MIN_SPACING)))

computeMaxOverhang(overallWidth, girderCount) ==
  MathMax(MIN_OVERHANG, ROver(RSub(overallWidth, RTimes(girderCount, MIN_SPACING)), 2))

\* mutant of usableWidth: the two overhangs are not taken off the width
usableWidth_IgnoresOverhang(overallWidth, overhang, girderCount) ==
  MathMax(overallWidth, RTimes(girderCount, MIN_SPACING))

usableWidth(overallWidth, overhang, girderCount) ==
  MathMax(RSub(overallWidth, RTimes(2, overhang)), RTimes(girderCount, MIN_SPACING))

\* ------------------------------------------------ Record<string, string>
EmptyRecord == [k \in {} |-> ""]
\* { ...a, ...b }
Spread(a, b) ==
  [k \in (DOMAIN a) \cup (DOMAIN b) |-> IF k \in DOMAIN b THEN b[k] ELSE a[k]]
\* mutant of Put: a key that already holds a message keeps it
Put_KeepsExisting(record, key, message) ==
  [k \in (DOMAIN record) \cup {key} |-> IF k \in DOMAIN record THEN record[k] ELSE message]

\* record[key] = message
Put(record, key, message) ==
  [k \in (DOMAIN record) \cup {key} |-> IF k = key THEN message ELSE record[k]]

\* the three free fields, GeometryField
GeometryFields == {"girder_spacing", "girder_count", "deck_overhang"}

\* mutant of detectGeometryIssues: the spacing warning does not look at the
\* spacing errors
detectGeometryIssues_WarnsDespiteError(carriagewayWidth, geometry) ==
  \* const x = v; Body(x): v is computed once and then used
  LET Bind(v, Body(_)) == CHOOSE r \in {Body(x) : x \in {v}} : TRUE IN
  Bind(computeOverallWidth(carriagewayWidth), LAMBDA overallWidth :
  Bind(RSub(overallWidth, RTimes(2, RInt(geometry.deck_overhang))), LAMBDA effectiveWidth :
  LET girder_count == geometry.girder_count
      girder_spacing == RInt(geometry.girder_spacing)
      deck_overhang == RInt(geometry.deck_overhang)
      \* evaluated only where girder_spacing > 0
      computedGirders == RDiv(effectiveWidth, girder_spacing)
      composedWidth == RAdd(RTimes(girder_count, girder_spacing), RTimes(2, deck_overhang))
  IN
  Bind(IF girder_count < MIN_GIRDER_COUNT
       THEN Put(EmptyRecord, "girder_count", "At least two girders are required.")
       ELSE EmptyRecord, LAMBDA e1 :
  Bind(IF RLe(girder_spacing, RInt(0))
       THEN Put(e1, "girder_spacing", "Girder spacing must be greater than zero.")
       ELSE e1, LAMBDA e2 :
  Bind(IF RLe(overallWidth, RTimes(2, deck_overhang))
       THEN Put(e2, "deck_overhang", "Deck overhang must leave room for the girder bay.")
       ELSE e2, LAMBDA e3 :
  Bind(IF RLe(effectiveWidth, girder_spacing) /\ "girder_spacing" \notin DOMAIN e3
       THEN Put(e3, "girder_spacing", "Girder spacing must be less than the usable deck width.")
       ELSE e3, LAMBDA e4 :
  Bind(IF RLe(effectiveWidth, RInt(0))
       THEN Put(e4, "deck_overhang", "Deck overhang consumes the deck width.")
       ELSE IF RLt(RInt(0), girder_spacing) /\ RLe(computedGirders, RInt(0))
       THEN Put(e4, "girder_spacing", "Spacing must allow for at least one girder bay.")
       ELSE e4, LAMBDA e5 :
  Bind(IF /\ RLt(RInt(0), effectiveWidth)
          /\ RLt(RInt(0), girder_spacing)
          /\ RLt(RInt(0), computedGirders)
          /\ RLe(<<1, 2>>, RAbs(RSub(computedGirders, RInt(girder_count))))
       THEN Put(EmptyRecord, "girder_spacing", "Inputs will rebalance to satisfy the width equation.")
       ELSE EmptyRecord, LAMBDA w1 :
  Bind(IF RLe(RInt(500), RAbs(RSub(composedWidth, overallWidth)))
       THEN Put(w1, "deck_overhang", "Values will be rebalanced to satisfy overall width = girders x spacing + 2 x overhang.")
       ELSE w1, LAMBDA w2 :
    [errors |-> e5, warnings |-> w2, overallWidth |-> ToInt(overallWidth)]
  )))))))))

\* ---------------------------------------------------------- IssueDetector
\* the rules in source order; errors and warnings grow rule by rule
detectGeometryIssues(carriagewayWidth, geometry) ==
  \* const x = v; Body(x): v is computed once and then used
  LET Bind(v, Body(_)) == CHOOSE r \in {Body(x) : x \in {v}} : TRUE IN
  Bind(computeOverallWidth(carriagewayWidth), LAMBDA overallWidth :
  Bind(RSub(overallWidth, RTimes(2, RInt(geometry.deck_overhang))), LAMBDA effectiveWidth :
  LET girder_count == geometry.girder_count
      girder_spacing == RInt(geometry.girder_spacing)
      deck_overhang == RInt(geometry.deck_overhang)
      \* evaluated only where girder_spacing > 0
      computedGirders == RDiv(effectiveWidth, girder_spacing)
      composedWidth == RAdd(RTimes(girder_count, girder_spacing), RTimes(2, deck_overhang))
  IN
  Bind(IF girder_count < MIN_GIRDER_COUNT
       THEN Put(EmptyRecord, "girder_count", "At least two girders are required.")
       ELSE EmptyRecord, LAMBDA e1 :
  Bind(IF RLe(girder_spacing, RInt(0))
       THEN Put(e1, "girder_spacing", "Girder spacing must be greater than zero.")
       ELSE e1, LAMBDA e2 :
  Bind(IF RLe(overallWidth, RTimes(2, deck_overhang))
       THEN Put(e2, "deck_overhang", "Deck overhang must leave room for the girder bay.")
       ELSE e2, LAMBDA e3 :
  Bind(IF RLe(effectiveWidth, girder_spacing) /\ "girder_spacing" \notin DOMAIN e3
       THEN Put(e3, "girder_spacing", "Girder spacing must be less than the usable deck width.")
       ELSE e3, LAMBDA e4 :
  Bind(IF RLe(effectiveWidth, RInt(0))
       THEN Put(e4, "deck_overhang", "Deck overhang consumes the deck width.")
       ELSE IF RLt(RInt(0), girder_spacing) /\ RLe(computedGirders, RInt(0))
       THEN Put(e4, "girder_spacing", "Spacing must allow for at least one girder bay.")
       ELSE e4, LAMBDA e5 :
  Bind(IF /\ RLt(RInt(0), effectiveWidth)
          /\ RLt(RInt(0), girder_spacing)
          /\ RLt(RInt(0), computedGirders)
          /\ RLe(<<1, 2>>, RAbs(RSub(computedGirders, RInt(girder_count))))
          /\ "girder_spacing" \notin DOMAIN e4
       THEN Put(EmptyRecord, "girder_spacing", "Inputs will rebalance to satisfy the width equation.")
       ELSE EmptyRecord, LAMBDA w1 :
  Bind(IF RLe(RInt(500), RAbs(RSub(composedWidth, overallWidth)))
       THEN Put(w1, "deck_overhang", "Values will be rebalanced to satisfy overall width = girders x spacing + 2 x overhang.")
       ELSE w1, LAMBDA w2 :
    [errors |-> e5, warnings |-> w2, overallWidth |-> ToInt(overallWidth)]
  )))))))))

\* ------------------------------------------------------- ConstraintSolver
\* the assignments in source order; a name with a digit is the value a
\* variable holds before its last assignment
autoAdjustGeometry(carriagewayWidth, geometry, changedField) ==
  \* const x = v; Body(x): v is computed once and then used
  LET Bind(v, Body(_)) == CHOOSE r \in {Body(x) : x \in {v}} : TRUE IN
  Bind(computeOverallWidth(carriagewayWidth), LAMBDA overallWidth :
  Bind(computeMaxGirders(overallWidth), LAMBDA maxGirders :
  Bind(IntMin(IntMax(MIN_GIRDER_COUNT, MathRound(RInt(geometry.girder_count))), maxGirders),
       LAMBDA girderCount0 :
  Bind(MathMax(MIN_SPACING, RInt(geometry.girder_spacing)), LAMBDA girderSpacing0 :
  Bind(clamp(RInt(geometry.deck_overhang), MIN_OVERHANG,
             computeMaxOverhang(overallWidth, girderCount0)), LAMBDA deckOverhang0 :
  \* changedField === 'girder_spacing': the count absorbs the change
  Bind(IF changedField = "girder_spacing"
       THEN IntMax(MIN_GIRDER_COUNT,
                   IntMin(maxGirders,
                          MathRound(RDiv(usableWidth(overallWidth, deckOverhang0, girderCount0),
                                         girderSpacing0))))
       ELSE girderCount0, LAMBDA girderCount :
  Bind(computeMaxOverhang(overallWidth, girderCount), LAMBDA maxOverhang :
  \* both branches re-clamp the overhang and derive the spacing from it;
  \* with changedField null neither runs
  Bind(IF changedField \in GeometryFields
       THEN clamp(deckOverhang0, MIN_OVERHANG, maxOverhang)
       ELSE deckOverhang0, LAMBDA deckOverhang1 :
  Bind(IF changedField \in GeometryFields
       THEN ROver(usableWidth(overallWidth, deckOverhang1, girderCount), girderCount)
       ELSE girderSpacing0, LAMBDA girderSpacing1 :
  \* final re-derivation pass
  Bind(ROver(RSub(overallWidth, RTimes(girderCount, girderSpacing1)), 2),
       LAMBDA preliminaryOverhang :
  Bind(clamp(preliminaryOverhang, MIN_OVERHANG, maxOverhang), LAMBDA deckOverhang2 :
  Bind(ROver(usableWidth(overallWidth, deckOverhang2, girderCount), girderCount),
       LAMBDA girderSpacing2 :
  Bind(roundToOneDecimal(MathMax(MIN_SPACING, girderSpacing2)), LAMBDA girderSpacing :
  \* the overhang assigned from (overallWidth - count * spacing) / 2 is
  \* overwritten at once by the one derived from the residual
  Bind(MathMax(RSub(overallWidth, RTimes(girderCount, girderSpacing)), RInt(0)),
       LAMBDA residual :
  Bind(roundToOneDecimal(clamp(ROver(residual, 2), MIN_OVERHANG, maxOverhang)),
       LAMBDA deckOverhang :
    [overall_width |-> ToInt(roundToTwoDecimals(overallWidth)),
     girder_spacing |-> ToInt(girderSpacing),
     girder_count |-> girderCount,
     deck_overhang |-> ToInt(deckOverhang)]
  )))))))))))))))

\* -------------------------------------------------- ValidationOrchestrator
\* value is [finite |-> BOOLEAN, milli |-> Int]: the number typed by the user
\* in thousandths (a length in mm, a girder count times 1000)
\* mutant of RawGeometry: overall_width is carried over from current
RawGeometry_KeepsWidth(carriagewayWidth, current, field, value) ==
  LET sanitized == IF value.finite THEN value.milli ELSE 0
      nextValue == IF field = "girder_count"
                   THEN MathRound(<<sanitized, 1000>>)
                   ELSE ToInt(roundToOneDecimal(RInt(sanitized)))
  IN  [current EXCEPT ![field] = nextValue]

RawGeometry(carriagewayWidth, current, field, value) ==
  LET sanitized == IF value.finite THEN value.milli ELSE 0
      nextValue == IF field = "girder_count"
                   THEN MathRound(<<sanitized, 1000>>)
                   ELSE ToInt(roundToOneDecimal(RInt(sanitized)))
      withWidth == [current EXCEPT
                      !.overall_width = ToInt(computeOverallWidth(carriagewayWidth))]
  IN  [withWidth EXCEPT ![field] = nextValue]

\* mutant of resolveGeometryChange: an accepted result reports the errors of
\* the pass over the raw candidate
resolveGeometryChange_ReportsRawErrors(carriagewayWidth, current, field, value) ==
  \* const x = v; Body(x): v is computed once and then used
  LET Bind(v, Body(_)) == CHOOSE r \in {Body(x) : x \in {v}} : TRUE IN
  Bind(RawGeometry(carriagewayWidth, current, field, value), LAMBDA rawGeometry :
  Bind(detectGeometryIssues(carriagewayWidth, rawGeometry), LAMBDA rawIssues :
  Bind(autoAdjustGeometry(carriagewayWidth, rawGeometry, field), LAMBDA adjusted :
  Bind(detectGeometryIssues(carriagewayWidth, adjusted), LAMBDA adjustedIssues :
    IF DOMAIN adjustedIssues.errors # {}
    THEN [geometry |-> current,
          errors |-> adjustedIssues.errors,
          warnings |-> Spread(rawIssues.warnings, adjustedIssues.warnings),
          raw |-> rawGeometry,
          isValid |-> FALSE]
    ELSE [geometry |-> adjusted,
          errors |-> rawIssues.errors,
          warnings |-> Spread(rawIssues.warnings, adjustedIssues.warnings),
          raw |-> rawGeometry,
          isValid |-> TRUE]
  ))))

\* mutant of resolveGeometryChange: the solver is skipped, the raw candidate
\* is what the detector decides on
resolveGeometryChange_NoSolver(carriagewayWidth, current, field, value) ==
  \* const x = v; Body(x): v is computed once and then used
  LET Bind(v, Body(_)) == CHOOSE r \in {Body(x) : x \in {v}} : TRUE IN
  Bind(RawGeometry(carriagewayWidth, current, field, value), LAMBDA rawGeometry :
  Bind(detectGeometryIssues(carriagewayWidth, rawGeometry), LAMBDA rawIssues :
    [geometry |-> IF DOMAIN rawIssues.errors # {} THEN current ELSE rawGeometry,
     errors |-> rawIssues.errors,
     warnings |-> rawIssues.warnings,
     raw |-> rawGeometry,
     isValid |-> DOMAIN rawIssues.errors = {}]
  ))

\* mutant of resolveGeometryChange: the warnings of the pass over the raw
\* candidate are dropped
resolveGeometryChange_AdjustedWarningsOnly(carriagewayWidth, current, field, value) ==
  \* const x = v; Body(x): v is computed once and then used
  LET Bind(v, Body(_)) == CHOOSE r \in {Body(x) : x \in {v}} : TRUE IN
  Bind(RawGeometry(carriagewayWidth, current, field, value), LAMBDA rawGeometry :
  Bind(autoAdjustGeometry(carriagewayWidth, rawGeometry, field), LAMBDA adjusted :
  Bind(detectGeometryIssues(carriagewayWidth, adjusted), LAMBDA adjustedIssues :
    [geometry |-> IF DOMAIN adjustedIssues.errors # {} THEN current ELSE adjusted,
     errors |-> adjustedIssues.errors,
     warnings |-> adjustedIssues.warnings,
     raw |-> rawGeometry,
     isValid |-> DOMAIN adjustedIssues.errors = {}]
  )))

\* mutant of resolveGeometryChange: the warnings of the pass over the
\* adjusted geometry are dropped
resolveGeometryChange_RawWarningsOnly(carriagewayWidth, current, field, value) ==
  \* const x = v; Body(x): v is computed once and then used
  LET Bind(v, Body(_)) == CHOOSE r \in {Body(x) : x \in {v}} : TRUE IN
  Bind(RawGeometry(carriagewayWidth, current, field, value), LAMBDA rawGeometry :
  Bind(detectGeometryIssues(carriagewayWidth, rawGeometry), LAMBDA rawIssues :
  Bind(autoAdjustGeometry(carriagewayWidth, rawGeometry, field), LAMBDA adjusted :
  Bind(detectGeometryIssues(carriagewayWidth, adjusted), LAMBDA adjustedIssues :
    [geometry |-> IF DOMAIN adjustedIssues.errors # {} THEN current ELSE adjusted,
     errors |-> adjustedIssues.errors,
     warnings |-> rawIssues.warnings,
     raw |-> rawGeometry,
     isValid |-> DOMAIN adjustedIssues.errors = {}]
  ))))

resolveGeometryChange(carriagewayWidth, current, field, value) ==
  \* const x = v; Body(x): v is computed once and then used
  LET Bind(v, Body(_)) == CHOOSE r \in {Body(x) : x \in {v}} : TRUE IN
  Bind(RawGeometry(carriagewayWidth, current, field, value), LAMBDA rawGeometry :
  Bind(detectGeometryIssues(carriagewayWidth, rawGeometry), LAMBDA rawIssues :
  Bind(autoAdjustGeometry(carriagewayWidth, rawGeometry, field), LAMBDA adjusted :
  Bind(detectGeometryIssues(carriagewayWidth, adjusted), LAMBDA adjustedIssues :
    IF DOMAIN adjustedIssues.errors # {}
    THEN [geometry |-> current,
          errors |-> adjustedIssues.errors,
          warnings |-> Spread(rawIssues.warnings, adjustedIssues.warnings),
          raw |-> rawGeometry,
          isValid |-> FALSE]
    ELSE [geometry |-> adjusted,
          errors |-> EmptyRecord,
          warnings |-> Spread(rawIssues.warnings, adjustedIssues.warnings),
          raw |-> rawGeometry,
          isValid |-> TRUE]
  ))))

\* ------------------------------------------------------------------ state
VARIABLES
  call,              \* arguments of the engine call being made / last made
  result,            \* what that call returned ([op |-> "none"] before it returns)
  basicInputs,       \* App: span, carriagewayWidth, skewAngle of the form
  geometryState,     \* App: useState geometryState
  geometryErrors,    \* App: useState geometryErrors
  geometryWarnings,  \* App: useState geometryWarnings
  geometryLoading,   \* App: useState geometryLoading
  geometryError,     \* App: useState geometryError (the failure indicator)
  timer,             \* App: geometryValidationTimeoutRef and the closure it holds
  inflight,          \* validateGeometry calls awaiting their response
  issued,            \* number of validateGeometry calls issued so far
  event              \* history: the handler that ran last

vars == <<call, result, basicInputs, geometryState, geometryErrors, geometryWarnings,
          geometryLoading, geometryError, timer, inflight, issued, event>>

appVars == <<basicInputs, geometryState, geometryErrors, geometryWarnings,
             geometryLoading, geometryError, timer, inflight, issued, event>>

\* ------------------------------------------------- inputs of the engine runs
\* i-th element of a list of hand-picked values, continued by a formula
Pick(list, i, beyond) == IF i <= Len(list) THEN list[i] ELSE beyond

\* carriageway widths (mm): 8.5 m is the form's default, -6 m hits the width
\* floor of 2 m, 8.65 m and 8.555 m give overall widths off the 0.1 m grid
CwAt(i) == Pick(<<8500, 8650, -6000, 4250, 8555, -2900>>, i, 1010 * i)
CwIndices == 1..(MaxCwIndex + 1)

\* spacing, count and overhang of the current geometry (mm, girders)
SpacingAt(i) == Pick(<<2500, 6200, 550, 0>>, i, 400 * i)
CountAt(i) == Pick(<<4, 2, 30, 1>>, i, i)
OverhangAt(i) == Pick(<<1800, 550, 0, 7000>>, i, 300 * i)
GridIndices == 1..(MaxGridIndex + 1)

\* numbers typed by the user, in thousandths (3000 is "3", 850 is "0.85"),
\* and something that is not a finite number
ValueAt(i) ==
  IF i = MaxValueIndex + 2 THEN [finite |-> FALSE, milli |-> 0]
  ELSE [finite |-> TRUE,
        milli |-> Pick(<<3000, 1600, 850, 0, -2000, 40000, 2449>>, i, 700 * i)]
ValueIndices == 1..(MaxValueIndex + 2)

FieldAt(i) == <<"girder_count", "deck_overhang", "girder_spacing", "null">>[i]

NoResult == [op |-> "none"]

\* ---------------------------------------------------------- engine runs
\* mutant of deriveGeometrySeed: the overhang is cut to one decimal, not
\* rounded
deriveGeometrySeed_OverhangCutOff(carriagewayWidth) ==
  LET overallWidth == roundToTwoDecimals(RAdd(RInt(carriagewayWidth), RInt(5000)))
      deckOverhang == 100 * MathFloor(ROver(ROver(RSub(overallWidth, RInt(4 * 2500)), 2), 100))
  IN  [overall_width |-> ToInt(overallWidth),
       girder_spacing |-> 2500,
       girder_count |-> 4,
       deck_overhang |-> deckOverhang]

\* Number(x.toFixed(n)) rounds to n decimals like the two helpers above
deriveGeometrySeed(carriagewayWidth) ==
  LET overallWidth == roundToTwoDecimals(RAdd(RInt(carriagewayWidth), RInt(5000)))
      girderCount == 4
      girderSpacing == RInt(2500)
      deckOverhang == roundToOneDecimal(
        ROver(RSub(overallWidth, RTimes(girderCount, girderSpacing)), 2))
  IN  [overall_width |-> ToInt(overallWidth),
       girder_spacing |-> ToInt(girderSpacing),
       girder_count |-> girderCount,
       deck_overhang |-> ToInt(deckOverhang)]

INITIAL_BASIC_INPUTS == [span |-> 30000, carriagewayWidth |-> 8500, skewAngle |-> 0]

stripGeometryFieldEntries(record) ==
  [k \in (DOMAIN record) \ GeometryFields |-> record[k]]

\* the request body built by runGeometryValidation: pendingGeometry is the
\* overrides when they are given and geometryStateRef.current otherwise,
\* inputs the basicInputs its closure was created with
Payload(pendingGeometry, changedField, inputs) ==
  [span |-> inputs.span,
   carriageway_width |-> inputs.carriagewayWidth,
   skew_angle |-> inputs.skewAngle,
   girder_spacing |-> pendingGeometry.girder_spacing,
   girder_count |-> pendingGeometry.girder_count,
   deck_overhang |-> pendingGeometry.deck_overhang,
   changed_field |-> changedField]

\* a validateGeometry call on its way; stale is history: a newer local edit
\* or a newer request has superseded it
Request(id, payload) == [id |-> id, payload |-> payload, stale |-> FALSE]
Superseded(requests) == {[r EXCEPT !.stale = TRUE] : r \in requests}

\* the form right after it is mounted: the seed geometry is displayed and the
\* mount effect has issued the first validateGeometry call
AppInit ==
  /\ basicInputs = INITIAL_BASIC_INPUTS
  /\ geometryState = deriveGeometrySeed(INITIAL_BASIC_INPUTS.carriagewayWidth)
  /\ geometryErrors = EmptyRecord
  /\ geometryWarnings = EmptyRecord
  /\ geometryLoading = TRUE
  /\ geometryError = ""
  /\ timer = [armed |-> FALSE]
  /\ inflight = {Request(1, Payload(deriveGeometrySeed(INITIAL_BASIC_INPUTS.carriagewayWidth),
                                    "undefined", INITIAL_BASIC_INPUTS))}
  /\ issued = 1
  /\ event = [kind |-> "mount"]

EngineInit ==
  /\ \E c \in CwIndices, s \in GridIndices, n \in GridIndices, o \in GridIndices,
        f \in 1..4, v \in ValueIndices :
       call = [carriagewayWidth |-> CwAt(c),
               current |-> [overall_width |-> 13500,
                            girder_spacing |-> SpacingAt(s),
                            girder_count |-> CountAt(n),
                            deck_overhang |-> OverhangAt(o)],
               field |-> FieldAt(f),
               value |-> ValueAt(v)]
  /\ result = NoResult
  /\ AppInit

\* resolveGeometryChange({carriagewayWidth, current, field, value})
CallResolve ==
  /\ result.op = "none"
  /\ call.field \in GeometryFields
  /\ result' = [op |-> "resolve",
                out |-> resolveGeometryChange(call.carriagewayWidth, call.current,
                                              call.field, call.value)]
  /\ UNCHANGED <<call, appVars>>

\* autoAdjustGeometry({carriagewayWidth, geometry, changedField})
CallAutoAdjust ==
  /\ result.op = "none"
  /\ result' = [op |-> "adjust",
                out |-> autoAdjustGeometry(call.carriagewayWidth, call.current, call.field)]
  /\ UNCHANGED <<call, appVars>>

\* detectGeometryIssues(carriagewayWidth, geometry)
CallDetect ==
  /\ result.op = "none"
  /\ result' = [op |-> "detect",
                out |-> detectGeometryIssues(call.carriagewayWidth, call.current)]
  /\ UNCHANGED <<call, appVars>>

EngineNext == CallResolve \/ CallAutoAdjust \/ CallDetect

SpecEngine == EngineInit /\ [][EngineNext]_vars

\* ------------------------------------- engine runs on balanced geometries
\* spacing and count of a current geometry that satisfies the width
\* equation (the overhang is what is left of the width), and the value typed
BalancedSpacingAt(i) == Pick(<<6200, 2500, 500, 580, 600, 550>>, i, 100 * i + 100)
BalancedCountAt(i) == Pick(<<2, 4, 20, 3, 5, 22>>, i, i + 1)
BalancedValueAt(i) ==
  [finite |-> TRUE, milli |-> Pick(<<3000, 5000, 21000, 850, 1900, 600>>, i, 1000 * i + 1000)]
BalancedIndices == 1..(MaxBalancedIndex + 1)

BalancedInit ==
  /\ \E c \in CwIndices, s \in BalancedIndices, n \in BalancedIndices,
        v \in BalancedIndices, field \in GeometryFields :
       LET overallWidth == ToInt(computeOverallWidth(CwAt(c)))
           rest == overallWidth - BalancedCountAt(n) * BalancedSpacingAt(s)
       IN  /\ rest >= 0
           /\ rest % 2 = 0
           /\ call = [carriagewayWidth |-> CwAt(c),
                      current |-> [overall_width |-> overallWidth,
                                   girder_spacing |-> BalancedSpacingAt(s),
                                   girder_count |-> BalancedCountAt(n),
                                   deck_overhang |-> rest \div 2],
                      field |-> field,
                      value |-> BalancedValueAt(v)]
  /\ result = NoResult
  /\ AppInit

SpecBalanced == BalancedInit /\ [][EngineNext]_vars

\* --------------------------------------------------- validation highlights
\* errorKey.includes(token)
Includes(errorKey, token) ==
  \E i \in 1..(Len(errorKey) - Len(token) + 1) :
    SubSeq(errorKey, i, i + Len(token) - 1) = token

\* mutant of hasMatchingError: every key, not some key, has to hold a token
hasMatchingError_EveryKey(errors, exactKeys, tokenMatches) ==
  IF \E key \in exactKeys : key \in DOMAIN errors /\ errors[key] # "" THEN TRUE
  ELSE IF tokenMatches = {} THEN FALSE
  ELSE \A errorKey \in DOMAIN errors :
         \E token \in tokenMatches : Includes(errorKey, token)

\* mutant of hasMatchingError: only the exact keys are looked up
hasMatchingError_ExactKeysOnly(errors, exactKeys, tokenMatches) ==
  \E key \in exactKeys : key \in DOMAIN errors /\ errors[key] # ""

\* Boolean(errors[key]) is false for a missing key and for an empty message
hasMatchingError(errors, exactKeys, tokenMatches) ==
  IF \E key \in exactKeys : key \in DOMAIN errors /\ errors[key] # "" THEN TRUE
  ELSE IF tokenMatches = {} THEN FALSE
  ELSE \E errorKey \in DOMAIN errors :
         \E token \in tokenMatches : Includes(errorKey, token)

deriveValidationHighlights(input) ==
  LET deckInvalid ==
        \/ input.invalidCarriagewayWidth
        \/ hasMatchingError(input.geometryErrors,
                            {"carriageway_width", "deck_overhang", "overall_width"}, {"deck"})
      girderInvalid ==
        \/ input.invalidSpan
        \/ hasMatchingError(input.geometryErrors,
                            {"girder_spacing", "girder_count", "span"}, {"girder"})
      footpathInvalid ==
        \/ input.invalidFootpathWidth
        \/ hasMatchingError(input.geometryErrors, {"footpath_width"}, {"footpath"})
      overhangInvalid ==
        \/ input.invalidCarriagewayWidth
        \/ hasMatchingError(input.geometryErrors, {"deck_overhang"}, {"overhang", "deck"})
  IN  [deck |-> deckInvalid, girders |-> girderInvalid,
       footpaths |-> footpathInvalid, overhangs |-> overhangInvalid]

\* error keys of the engine, of the tests and of a namespaced backend, and
\* the messages under them (an empty message is a falsy entry)
ErrorKeyAt(i) ==
  Pick(<<"girder_spacing", "deck_balance_error", "span", "girder_count", "deck_overhang",
         "footpath_width", "deck_girder_clearance">>, i, "wind_speed")
ErrorKeys == {ErrorKeyAt(i) : i \in 1..(MaxErrorKeyIndex + 1)}
ErrorMessages == {"", "Spacing invalid"}
ErrorMappings ==
  UNION {[keys -> ErrorMessages] :
           keys \in {chosen \in SUBSET ErrorKeys : Cardinality(chosen) <= MaxErrorCount}}

HighlightsInit ==
  /\ \E errors \in ErrorMappings, cw \in BOOLEAN, sp \in BOOLEAN, fp \in BOOLEAN :
       call = [geometryErrors |-> errors,
               invalidCarriagewayWidth |-> cw,
               invalidSpan |-> sp,
               invalidFootpathWidth |-> fp]
  /\ result = NoResult
  /\ AppInit

\* deriveValidationHighlights(input)
CallHighlights ==
  /\ result.op = "none"
  /\ result' = [op |-> "highlights", out |-> deriveValidationHighlights(call)]
  /\ UNCHANGED <<call, appVars>>

SpecHighlights == HighlightsInit /\ [][CallHighlights]_vars

\* ================================================== claims on the engine
\* girders x spacing + 2 x overhang of a geometry, in mm
Composed(geometry) ==
  geometry.girder_count * geometry.girder_spacing + 2 * geometry.deck_overhang

\* C1: every geometry that resolveGeometryChange returns with isValid = true
\* satisfies girder_count x girder_spacing + 2 x deck_overhang = overall_width
\* exactly.
C1_AcceptedGeometryBalanced ==
  (result.op = "resolve" /\ result.out.isValid)
    => Composed(result.out.geometry) = result.out.geometry.overall_width

\* C3: the girder_count returned by autoAdjustGeometry is at most
\* floor((overall_width - 2 x MIN_OVERHANG) / MIN_SPACING) and the returned
\* deck_overhang is at least MIN_OVERHANG = 0.5 m.
C3_CountAndOverhangBounds ==
  result.op = "adjust" =>
    /\ result.out.girder_count <= (result.out.overall_width - 2 * 500) \div 500
    /\ result.out.deck_overhang >= 500

\* C3 witness: a call whose girder count exceeded the maximum and whose
\* overhang was below the floor, both clamped onto their bound
C3_Witness ==
  /\ result.op = "adjust"
  /\ call.current.girder_count > (result.out.overall_width - 2 * 500) \div 500
  /\ result.out.girder_count = (result.out.overall_width - 2 * 500) \div 500
  /\ call.current.deck_overhang < 500
  /\ result.out.deck_overhang = 500

\* C4: autoAdjustGeometry always returns girder_count >= 2,
\* girder_spacing >= MIN_SPACING and deck_overhang <=
\* (overall_width - girder_count x MIN_SPACING) / 2.
C4_AdjustedInsideEveryBound ==
  result.op = "adjust" =>
    /\ result.out.girder_count >= 2
    /\ result.out.girder_spacing >= 500
    /\ 2 * result.out.deck_overhang
         <= result.out.overall_width - result.out.girder_count * 500

\* the solver changed a free field other than the edited one
RebalancedOtherField ==
  \E f \in GeometryFields \ {call.field} :
    result.out.geometry[f] # result.out.raw[f]

\* C10 as claimed: every accepted edit in which the solver changed a free
\* field other than the edited one returns a non-empty warnings mapping.
C10_RebalanceAlwaysWarns ==
  (result.op = "resolve" /\ result.out.isValid /\ RebalancedOtherField)
    => DOMAIN result.out.warnings # {}

\* C10 amended: an accepted edit in which the solver changed a free field
\* other than the edited one, and whose raw candidate misses the width
\* equation by at least the 0.5 m tolerance, returns a warnings mapping that
\* holds the deck_overhang rebalancing warning.
C10_RebalanceBeyondToleranceWarns ==
  (/\ result.op = "resolve"
   /\ result.out.isValid
   /\ RebalancedOtherField
   /\ Abs(Composed(result.out.raw) - result.out.raw.overall_width) >= 500)
    => "deck_overhang" \in DOMAIN result.out.warnings

\* C10 witness: such an edit, warned about only by the pass over the raw
\* candidate (the rebalanced geometry is within the tolerance)
C10_Witness ==
  /\ result.op = "resolve"
  /\ result.out.isValid
  /\ RebalancedOtherField
  /\ Abs(Composed(result.out.raw) - result.out.raw.overall_width) >= 500
  /\ Abs(Composed(result.out.geometry) - result.out.geometry.overall_width) < 500
  /\ "deck_overhang" \in DOMAIN result.out.warnings

\* an edit of girder_count to a larger whole number that is not above
\* maxGirders, on a current geometry that satisfies the width equation
CountIncreaseOnBalanced ==
  /\ result.op = "resolve"
  /\ call.field = "girder_count"
  /\ Composed(call.current) = result.out.raw.overall_width
  /\ call.value.finite
  /\ call.value.milli % 1000 = 0
  /\ call.value.milli \div 1000 > call.current.girder_count
  /\ call.value.milli \div 1000 <= (result.out.raw.overall_width - 2 * 500) \div 500

\* C11 as claimed: such an edit returns isValid = true, no errors, the new
\* girder_count and a girder_spacing strictly smaller than the current one.
C11_CountIncreaseShrinksSpacing ==
  CountIncreaseOnBalanced =>
    /\ result.out.isValid
    /\ DOMAIN result.out.errors = {}
    /\ result.out.geometry.girder_count = call.value.milli \div 1000
    /\ result.out.geometry.girder_spacing < call.current.girder_spacing

\* C11 amended: such an edit returns isValid = true, no errors and the new
\* girder_count; the girder_spacing is strictly smaller than the current one
\* when the current spacing exceeds MIN_SPACING and 0.05 m x the new count.
C11_CountIncreaseShrinksWideSpacing ==
  CountIncreaseOnBalanced =>
    /\ result.out.isValid
    /\ DOMAIN result.out.errors = {}
    /\ result.out.geometry.girder_count = call.value.milli \div 1000
    /\ (/\ call.current.girder_spacing > 500
        /\ 1000 * call.current.girder_spacing > 50 * call.value.milli)
         => result.out.geometry.girder_spacing < call.current.girder_spacing

\* C11 witness: two girders at 6.2 m with 0.55 m overhangs on a 13.5 m deck,
\* girder_count edited to 3: three girders at less than 6.2 m
C11_Witness ==
  /\ CountIncreaseOnBalanced
  /\ call.current = [overall_width |-> 13500, girder_spacing |-> 6200,
                     girder_count |-> 2, deck_overhang |-> 550]
  /\ result.out.isValid
  /\ result.out.geometry.girder_count = 3
  /\ result.out.geometry.girder_spacing < 6200

\* an edit of deck_overhang to a value above the current overhang, on a
\* current geometry that satisfies the width equation
OverhangIncreaseOnBalanced ==
  /\ result.op = "resolve"
  /\ call.field = "deck_overhang"
  /\ Composed(call.current) = result.out.raw.overall_width
  /\ call.value.finite
  /\ call.value.milli > call.current.deck_overhang

\* twice the overhang a typed value v (mm) stands for: v itself, or the
\* bound MIN_OVERHANG or maxOverhang(overall_width, girder_count) it passes
TwiceFeasibleOverhang(v, overallWidth, girderCount) ==
  LET twiceMax == IF overallWidth - girderCount * 500 < 1000 THEN 1000
                  ELSE overallWidth - girderCount * 500
  IN  IF v < 500 THEN 1000 ELSE IF 2 * v > twiceMax THEN twiceMax ELSE 2 * v

\* C12: such an edit returns isValid = true, a deck_overhang equal to
\* exactly the typed value (or to the bound it was clamped to when the value
\* is out of range) and a girder_spacing strictly smaller than the current
\* spacing.
C12_OverhangIncreaseKeptExactly ==
  OverhangIncreaseOnBalanced =>
    /\ result.out.isValid
    /\ 2 * result.out.geometry.deck_overhang
         = TwiceFeasibleOverhang(call.value.milli, result.out.geometry.overall_width,
                                 result.out.geometry.girder_count)
    /\ result.out.geometry.girder_spacing < call.current.girder_spacing

\* C13: an edit of girder_count to a value below MIN_GIRDER_COUNT is
\* accepted: the returned girder_count is 2, the errors mapping is empty and
\* isValid = true.
C13_CountBelowMinimumClamped ==
  (/\ result.op = "resolve"
   /\ call.field = "girder_count"
   /\ call.value.finite
   /\ call.value.milli < 2000)
    => /\ result.out.geometry.girder_count = 2
       /\ DOMAIN result.out.errors = {}
       /\ result.out.isValid

\* C13 witness: girder_count edited to 0 or below; the raw candidate has
\* fewer than two girders, the accepted geometry has two
C13_Witness ==
  /\ result.op = "resolve"
  /\ call.field = "girder_count"
  /\ call.value.finite
  /\ call.value.milli <= 0
  /\ result.out.raw.girder_count < MIN_GIRDER_COUNT
  /\ "girder_count" \in DOMAIN detectGeometryIssues(call.carriagewayWidth, result.out.raw).errors
  /\ result.out.geometry.girder_count = 2
  /\ result.out.isValid

\* C15: in every result of resolveGeometryChange, isValid is true if and
\* only if the returned errors mapping is empty.
C15_ValidIffNoErrors ==
  result.op = "resolve" =>
    (result.out.isValid <=> DOMAIN result.out.errors = {})

\* C15 witness: an edit of deck_overhang whose raw candidate has errors; the
\* result is valid and its errors mapping is empty
C15_Witness ==
  /\ result.op = "resolve"
  /\ call.field = "deck_overhang"
  /\ DOMAIN detectGeometryIssues(call.carriagewayWidth, result.out.raw).errors # {}
  /\ result.out.isValid
  /\ DOMAIN result.out.errors = {}

\* the two detector passes of a resolveGeometryChange call, recomputed from
\* the arguments of the call
RawPass ==
  detectGeometryIssues(call.carriagewayWidth,
                       RawGeometry(call.carriagewayWidth, call.current, call.field, call.value))
AdjustedPass ==
  detectGeometryIssues(call.carriagewayWidth,
                       autoAdjustGeometry(call.carriagewayWidth,
                                          RawGeometry(call.carriagewayWidth, call.current,
                                                      call.field, call.value),
                                          call.field))

\* C18: in both outcomes of resolveGeometryChange the returned warnings are
\* the union of the raw-pass and the adjusted-pass warnings, with the
\* adjusted-pass message for a key of both; the returned errors are the
\* adjusted-pass errors on rejection and empty on acceptance, so raw-pass
\* errors are never returned.
C18_WarningsMergedErrorsFromAdjusted ==
  result.op = "resolve" =>
    \E rawIssues \in {RawPass}, adjustedIssues \in {AdjustedPass} :
      /\ DOMAIN result.out.warnings
           = (DOMAIN rawIssues.warnings) \cup (DOMAIN adjustedIssues.warnings)
      /\ \A key \in DOMAIN adjustedIssues.warnings :
           result.out.warnings[key] = adjustedIssues.warnings[key]
      /\ \A key \in (DOMAIN rawIssues.warnings) \ (DOMAIN adjustedIssues.warnings) :
           result.out.warnings[key] = rawIssues.warnings[key]
      /\ result.out.isValid <=> DOMAIN adjustedIssues.errors = {}
      /\ result.out.isValid => result.out.errors = EmptyRecord
      /\ ~result.out.isValid => result.out.errors = adjustedIssues.errors

\* C18 witness: an accepted edit whose raw candidate raises no warning and
\* whose adjusted geometry raises two; both are returned
C18_Witness ==
  /\ result.op = "resolve"
  /\ result.out.isValid
  /\ DOMAIN RawPass.warnings = {}
  /\ DOMAIN AdjustedPass.warnings = {"girder_spacing", "deck_overhang"}
  /\ result.out.warnings = AdjustedPass.warnings
  /\ result.out.errors = EmptyRecord

\* the usable width of a detectGeometryIssues call (mm)
EffectiveWidth == result.out.overallWidth - 2 * call.current.deck_overhang

\* C19: the detector reports the girder_spacing error 'must be less than the
\* usable deck width' only when the usable width is positive, the spacing is
\* at least the usable width and no earlier spacing error exists; when the
\* usable width is zero or negative the usable-width rules add the
\* deck_overhang error and no other.
C19_SpacingErrorOnlyOnPositiveUsableWidth ==
  result.op = "detect" =>
    /\ ("girder_spacing" \in DOMAIN result.out.errors
          /\ result.out.errors["girder_spacing"]
               = "Girder spacing must be less than the usable deck width.")
         => /\ EffectiveWidth > 0
            /\ call.current.girder_spacing >= EffectiveWidth
            /\ call.current.girder_spacing > 0
    /\ EffectiveWidth <= 0
         => /\ "deck_overhang" \in DOMAIN result.out.errors
            /\ "girder_spacing" \in DOMAIN result.out.errors
                 => result.out.errors["girder_spacing"]
                      = "Girder spacing must be greater than zero."

\* C20: the detector reports a deck_overhang error if and only if
\* 2 x deck_overhang >= overall_width, and whenever the usable width is zero
\* or negative the message reported is 'consumes the deck width', which
\* overrides 'must leave room for the girder bay'.
C20_OverhangErrorIffConsumes ==
  result.op = "detect" =>
    /\ "deck_overhang" \in DOMAIN result.out.errors
         <=> 2 * call.current.deck_overhang >= result.out.overallWidth
    /\ EffectiveWidth <= 0
         => /\ "deck_overhang" \in DOMAIN result.out.errors
            /\ result.out.errors["deck_overhang"] = "Deck overhang consumes the deck width."

\* C20 witness: an overhang of 7 m on the 13.5 m deck: the overhang rule and
\* the usable-width rule both fire, the second message is the one reported
C20_Witness ==
  /\ result.op = "detect"
  /\ result.out.overallWidth = 13500
  /\ call.current.deck_overhang = 7000
  /\ EffectiveWidth < 0
  /\ result.out.errors["deck_overhang"] = "Deck overhang consumes the deck width."

\* composedWidth - overallWidth of a detectGeometryIssues call (mm)
DetectDrift ==
  call.current.girder_count * call.current.girder_spacing
    + 2 * call.current.deck_overhang - result.out.overallWidth

\* C21: the detector emits the deck_overhang rebalancing warning if and only
\* if |girder_count x girder_spacing + 2 x deck_overhang - overall_width| is
\* at least 0.5 (a drift of exactly 0.5 warns, a smaller one does not),
\* whatever errors were reported.
C21_DriftWarningAtHalfUnit ==
  result.op = "detect" =>
    ("deck_overhang" \in DOMAIN result.out.warnings <=> Abs(DetectDrift) >= 500)

\* C21 witness: a drift of exactly 0.5 on a geometry that also has errors;
\* the warning is emitted
C21_Witness ==
  /\ result.op = "detect"
  /\ Abs(DetectDrift) = 500
  /\ DOMAIN result.out.errors # {}
  /\ "deck_overhang" \in DOMAIN result.out.warnings

\* the value of an edit after sanitizing, in the unit of its field (girders
\* or mm), and the width derived from the carriageway width (mm), both in
\* integer arithmetic: half-up rounding is a floor after adding one half
SanitizedEdit ==
  LET sanitized == IF call.value.finite THEN call.value.milli ELSE 0
  IN  IF call.field = "girder_count"
      THEN (sanitized + 500) \div 1000
      ELSE 100 * ((sanitized + 50) \div 100)
DerivedWidth ==
  LET rounded == 10 * ((call.carriagewayWidth + 5000 + 5) \div 10)
  IN  IF rounded < 2000 THEN 2000 ELSE rounded

\* C22: the raw candidate built by resolveGeometryChange differs from the
\* current geometry only in the edited field and in overall_width: the edited
\* field holds the sanitized value (0 for a non-finite one; rounded to an
\* integer for girder_count, to one decimal otherwise), overall_width is
\* derived from carriagewayWidth, the two other free fields are unchanged.
C22_RawCandidateFrame ==
  result.op = "resolve" =>
    /\ DOMAIN result.out.raw = DOMAIN call.current
    /\ result.out.raw[call.field] = SanitizedEdit
    /\ result.out.raw.overall_width = DerivedWidth
    /\ \A other \in GeometryFields \ {call.field} :
         result.out.raw[other] = call.current[other]

\* C22 witness: girder_spacing edited to 2.449 on a form whose current
\* overall_width is stale: the candidate holds 2.4 and the derived width
C22_Witness ==
  /\ result.op = "resolve"
  /\ call.field = "girder_spacing"
  /\ call.value = [finite |-> TRUE, milli |-> 2449]
  /\ result.out.raw.girder_spacing = 2400
  /\ result.out.raw.overall_width # call.current.overall_width
  /\ result.out.raw.girder_count = call.current.girder_count
  /\ result.out.raw.deck_overhang = call.current.deck_overhang

\* C23: in every result of resolveGeometryChange the overall_width of the
\* returned geometry is the width derived from the carriagewayWidth argument:
\* carriagewayWidth + 5 rounded to two decimals, and at least 2.0.
C23_ResultWidthDerived ==
  result.op = "resolve" => result.out.geometry.overall_width = DerivedWidth

\* C23 witness: a carriageway width of -6 with a current geometry that holds
\* overall_width 13.5: the returned geometry holds the 2.0 floor
C23_Witness ==
  /\ result.op = "resolve"
  /\ call.carriagewayWidth + 5000 < 2000
  /\ call.current.overall_width = 13500
  /\ result.out.geometry.overall_width = 2000

\* what the spacing branch of the solver is expected to return for a
\* resolveGeometryChange call, in integer arithmetic (mm, doubled overhangs):
\* the count bound, the clamped current count, the doubled overhang clamped
\* for a count, and the count and the spacing expected for a divisor
ExpectedMaxGirders == IntMax(2, (DerivedWidth - 1000) \div 500)
ClampedCount == IntMin(IntMax(2, call.current.girder_count), ExpectedMaxGirders)
TwiceClamped(twiceOverhang, girderCount) ==
  IntMax(1000, IntMin(twiceOverhang, IntMax(1000, DerivedWidth - 500 * girderCount)))
TwiceClampedOverhang == TwiceClamped(2 * call.current.deck_overhang, ClampedCount)
ExpectedCount(divisor) ==
  LET usable == DerivedWidth - TwiceClampedOverhang
  IN  IntMax(2, IntMin(ExpectedMaxGirders, (2 * usable + divisor) \div (2 * divisor)))
ExpectedSpacing(girderCount) ==
  LET usable == DerivedWidth - TwiceClamped(TwiceClampedOverhang, girderCount)
  IN  IF usable < 500 * girderCount THEN 500
      ELSE 100 * ((2 * usable + 100 * girderCount) \div (200 * girderCount))

\* C24 as claimed: when girder_spacing is edited the returned girder_count is
\* round((overall_width - 2 x clamped overhang) / new spacing) clamped to
\* [MIN_GIRDER_COUNT, maxGirders] (a division by zero gives the upper bound),
\* and the returned spacing is usable width / that count, not the typed value.
C24_CountAbsorbsTypedSpacing ==
  (result.op = "resolve" /\ call.field = "girder_spacing") =>
    /\ result.out.geometry.girder_count
         = IF SanitizedEdit = 0 THEN ExpectedMaxGirders
           ELSE IF SanitizedEdit < 0 THEN 2
           ELSE ExpectedCount(SanitizedEdit)
    /\ result.out.geometry.girder_spacing
         = ExpectedSpacing(result.out.geometry.girder_count)

\* C24 amended: the divisor is the new spacing raised to MIN_SPACING.
C24_CountAbsorbsFlooredSpacing ==
  (result.op = "resolve" /\ call.field = "girder_spacing") =>
    /\ result.out.geometry.girder_count = ExpectedCount(IntMax(500, SanitizedEdit))
    /\ result.out.geometry.girder_spacing
         = ExpectedSpacing(result.out.geometry.girder_count)

\* C24 witness: a spacing of 1.6 typed on {2.5, 4, 1.8}: the count changes
\* and the returned spacing is not the typed one
C24_Witness ==
  /\ result.op = "resolve"
  /\ call.field = "girder_spacing"
  /\ SanitizedEdit = 1600
  /\ call.current.girder_count = 4
  /\ result.out.geometry.girder_count > 4
  /\ result.out.geometry.girder_count < ExpectedMaxGirders
  /\ result.out.geometry.girder_spacing # 1600

\* C25: the rejection branch of resolveGeometryChange is unreachable for
\* finite inputs: whatever the carriageway width, the current geometry and
\* the edit, the detector reports no error on the solver's output and
\* isValid is true.
C25_NeverRejected ==
  result.op = "resolve" =>
    /\ DOMAIN AdjustedPass.errors = {}
    /\ result.out.isValid

\* C25 witness: a negative spacing typed on a geometry with one girder and a
\* 7 m overhang: the raw candidate has all three errors, the edit is accepted
C25_Witness ==
  /\ result.op = "resolve"
  /\ call.field = "girder_spacing"
  /\ call.value.finite
  /\ call.value.milli < 0
  /\ DOMAIN RawPass.errors = GeometryFields
  /\ result.out.isValid

\* C26: every geometry accepted by resolveGeometryChange has an equation
\* drift |girder_count x girder_spacing + 2 x deck_overhang - overall_width|
\* strictly below 0.5, so the detector's pass over the solver output gives no
\* warning and every returned warning comes from the raw pass.
C26_AcceptedDriftBelowTolerance ==
  (result.op = "resolve" /\ result.out.isValid) =>
    /\ Abs(Composed(result.out.geometry) - result.out.geometry.overall_width) < 500
    /\ DOMAIN AdjustedPass.warnings = {}
    /\ \A key \in DOMAIN result.out.warnings :
         /\ key \in DOMAIN RawPass.warnings
         /\ result.out.warnings[key] = RawPass.warnings[key]

\* C27: the solver's output is a fixed point: a geometry returned by
\* autoAdjustGeometry, fed back with the same carriageway width and any
\* changedField (one of the three fields or null), is returned unchanged.
C27_SolverOutputFixedPoint ==
  result.op = "adjust" =>
    \A changedField \in GeometryFields \cup {"null"} :
      autoAdjustGeometry(call.carriagewayWidth, result.out, changedField) = result.out

\* C30: in one detector result the key girder_spacing never appears in both
\* errors and warnings: the spacing rebalancing warning is emitted only when
\* no girder_spacing error has been recorded, and none is added after it.
C30_SpacingErrorExcludesWarning ==
  result.op = "detect" =>
    ~("girder_spacing" \in DOMAIN result.out.errors
        /\ "girder_spacing" \in DOMAIN result.out.warnings)

\* C30 witness: a spacing at least as large as a positive usable width, with
\* an implied count at least 0.5 away from the count: the error is reported
\* and the warning is held back
C30_Witness ==
  /\ result.op = "detect"
  /\ EffectiveWidth > 0
  /\ call.current.girder_spacing >= EffectiveWidth
  /\ 2 * Abs(EffectiveWidth - call.current.girder_count * call.current.girder_spacing)
       >= call.current.girder_spacing
  /\ "girder_spacing" \in DOMAIN result.out.errors
  /\ "girder_spacing" \notin DOMAIN result.out.warnings

\* C16: with an empty geometryErrors mapping deriveValidationHighlights
\* returns deck = overhangs = invalidCarriagewayWidth, girders = invalidSpan
\* and footpaths = invalidFootpathWidth.
C16_EmptyErrorsFollowFlags ==
  (result.op = "highlights" /\ DOMAIN call.geometryErrors = {})
    => /\ result.out.deck = call.invalidCarriagewayWidth
       /\ result.out.overhangs = call.invalidCarriagewayWidth
       /\ result.out.girders = call.invalidSpan
       /\ result.out.footpaths = call.invalidFootpathWidth

\* C16 witness: no errors and only the carriageway flag set: deck and
\* overhangs are highlighted, girders and footpaths are not
C16_Witness ==
  /\ result.op = "highlights"
  /\ DOMAIN call.geometryErrors = {}
  /\ call.invalidCarriagewayWidth
  /\ ~call.invalidSpan
  /\ ~call.invalidFootpathWidth
  /\ result.out = [deck |-> TRUE, girders |-> FALSE, footpaths |-> FALSE, overhangs |-> TRUE]

\* a highlights call with the three flags false and at least one error, all
\* of them with a message
ErrorsOnly ==
  /\ result.op = "highlights"
  /\ ~call.invalidCarriagewayWidth
  /\ ~call.invalidSpan
  /\ ~call.invalidFootpathWidth
  /\ DOMAIN call.geometryErrors # {}
  /\ \A key \in DOMAIN call.geometryErrors : call.geometryErrors[key] # ""

GirdersOnly ==
  result.out = [deck |-> FALSE, girders |-> TRUE, footpaths |-> FALSE, overhangs |-> FALSE]
DeckAndOverhangsOnly ==
  result.out = [deck |-> TRUE, girders |-> FALSE, footpaths |-> FALSE, overhangs |-> TRUE]

\* C17 as claimed: with the flags false, an error under girder_spacing,
\* girder_count or span highlights girders and nothing else, and an error
\* whose key contains the token 'deck' highlights deck and overhangs and
\* neither girders nor footpaths.
C17_KeysMapToRegions ==
  (ErrorsOnly /\ Cardinality(DOMAIN call.geometryErrors) = 1) =>
    \A key \in DOMAIN call.geometryErrors :
      /\ key \in {"girder_spacing", "girder_count", "span"} => GirdersOnly
      /\ Includes(key, "deck") => DeckAndOverhangsOnly

\* C17 amended: with the flags false, errors under girder_spacing,
\* girder_count or span highlight girders and nothing else; errors whose keys
\* contain the token 'deck' and neither the token 'girder' nor the token
\* 'footpath' highlight deck and overhangs and neither girders nor footpaths.
C17_SingleRegionKeysMapToRegions ==
  ErrorsOnly =>
    /\ DOMAIN call.geometryErrors \subseteq {"girder_spacing", "girder_count", "span"}
         => GirdersOnly
    /\ (\A key \in DOMAIN call.geometryErrors :
          /\ Includes(key, "deck")
          /\ ~Includes(key, "girder")
          /\ ~Includes(key, "footpath"))
         => DeckAndOverhangsOnly

\* C17 witness: the namespaced key deck_balance_error alone highlights deck
\* and overhangs only
C17_Witness ==
  /\ ErrorsOnly
  /\ DOMAIN call.geometryErrors = {"deck_balance_error"}
  /\ DeckAndOverhangsOnly

\* ------------------------------------------------------------ the form
\* edits offered to the geometry popup: (field, value typed)
EditAt(i) ==
  Pick(<<[field |-> "girder_count", value |-> ValueAt(1)],
         [field |-> "deck_overhang", value |-> ValueAt(2)],
         [field |-> "girder_spacing", value |-> ValueAt(1)],
         [field |-> "deck_overhang", value |-> ValueAt(MaxValueIndex + 2)]>>,
       i, [field |-> "girder_count", value |-> [finite |-> TRUE, milli |-> 1000 * i]])
EditIndices == 1..(MaxEditIndex + 1)

\* values offered to the span, carriageway width and skew angle inputs
BasicInputValues(field) ==
  IF field = "carriagewayWidth" THEN {8500, 8650}
  ELSE IF field = "span" THEN {30000, 31000}
  ELSE {0}

\* mutant of handleGeometryFieldChange: the raw candidate is what is sent to
\* the validation
handleGeometryFieldChange_SchedulesRaw(field, numericValue) ==
  LET safeValue == IF numericValue.finite THEN numericValue
                   ELSE [finite |-> TRUE, milli |-> 0]
      cleanedErrors == stripGeometryFieldEntries(geometryErrors)
      cleanedWarnings == stripGeometryFieldEntries(geometryWarnings)
  IN  \E res \in {resolveGeometryChange(basicInputs.carriagewayWidth, geometryState,
                                        field, safeValue)} :
        /\ call' = [carriagewayWidth |-> basicInputs.carriagewayWidth,
                    current |-> geometryState, field |-> field, value |-> safeValue]
        /\ result' = [op |-> "resolve", out |-> res]
        /\ geometryErrors' = IF DOMAIN res.errors # {}
                             THEN Spread(cleanedErrors, res.errors) ELSE cleanedErrors
        /\ geometryWarnings' = IF DOMAIN res.warnings # {}
                               THEN Spread(cleanedWarnings, res.warnings) ELSE cleanedWarnings
        /\ IF ~res.isValid
           THEN /\ geometryState' = [geometryState EXCEPT
                                       !.overall_width = res.raw.overall_width,
                                       ![field] = res.raw[field]]
                /\ timer' = timer
           ELSE /\ geometryState' = res.geometry
                \* clearTimeout of a pending timer, then a new one of 250 ms
                /\ timer' = [armed |-> TRUE, nextGeometry |-> res.raw,
                             changedField |-> field, inputs |-> basicInputs]
        /\ inflight' = Superseded(inflight)
        /\ event' = [kind |-> "edit"]
        /\ UNCHANGED <<basicInputs, geometryLoading, geometryError, issued>>

\* handleGeometryFieldChange(field, numericValue), with the re-render and
\* scheduleGeometryValidation(result.geometry, field) it ends with
handleGeometryFieldChange(field, numericValue) ==
  LET safeValue == IF numericValue.finite THEN numericValue
                   ELSE [finite |-> TRUE, milli |-> 0]
      cleanedErrors == stripGeometryFieldEntries(geometryErrors)
      cleanedWarnings == stripGeometryFieldEntries(geometryWarnings)
  IN  \E res \in {resolveGeometryChange(basicInputs.carriagewayWidth, geometryState,
                                        field, safeValue)} :
        /\ call' = [carriagewayWidth |-> basicInputs.carriagewayWidth,
                    current |-> geometryState, field |-> field, value |-> safeValue]
        /\ result' = [op |-> "resolve", out |-> res]
        /\ geometryErrors' = IF DOMAIN res.errors # {}
                             THEN Spread(cleanedErrors, res.errors) ELSE cleanedErrors
        /\ geometryWarnings' = IF DOMAIN res.warnings # {}
                               THEN Spread(cleanedWarnings, res.warnings) ELSE cleanedWarnings
        /\ IF ~res.isValid
           THEN /\ geometryState' = [geometryState EXCEPT
                                       !.overall_width = res.raw.overall_width,
                                       ![field] = res.raw[field]]
                /\ timer' = timer
           ELSE /\ geometryState' = res.geometry
                \* clearTimeout of a pending timer, then a new one of 250 ms
                /\ timer' = [armed |-> TRUE, nextGeometry |-> res.geometry,
                             changedField |-> field, inputs |-> basicInputs]
        /\ inflight' = Superseded(inflight)
        /\ event' = [kind |-> "edit"]
        /\ UNCHANGED <<basicInputs, geometryLoading, geometryError, issued>>

\* the debounce timer fires: runGeometryValidation(nextGeometry, changedField)
\* up to its await (the payload is built and the request sent)
TimerFires ==
  /\ timer.armed
  /\ issued < MaxRequests
  /\ inflight' = Superseded(inflight) \cup
       {Request(issued + 1, Payload(timer.nextGeometry, timer.changedField, timer.inputs))}
  /\ issued' = issued + 1
  /\ geometryLoading' = TRUE
  /\ timer' = [armed |-> FALSE]
  /\ event' = [kind |-> "timer"]
  /\ UNCHANGED <<call, result, basicInputs, geometryState, geometryErrors,
                 geometryWarnings, geometryError>>

\* handleBasicInputChange for span, carriagewayWidth or skewAngle: the new
\* value changes the identity of runGeometryValidation, whose effect calls
\* it at once, without overrides
handleBasicInputChange(field, nextValue) ==
  /\ basicInputs[field] # nextValue
  /\ issued < MaxRequests
  /\ basicInputs' = [basicInputs EXCEPT ![field] = nextValue]
  /\ inflight' = Superseded(inflight) \cup
       {Request(issued + 1, Payload(geometryState, "undefined", basicInputs'))}
  /\ issued' = issued + 1
  /\ geometryLoading' = TRUE
  /\ event' = [kind |-> "input"]
  /\ UNCHANGED <<call, result, geometryState, geometryErrors, geometryWarnings,
                 geometryError, timer>>

\* what the validation service answers to a payload: the rebalanced geometry
\* with the issues of the submitted one, or a rejection keyed by span
ServerResponses(payload) ==
  LET submitted == [overall_width |-> ToInt(computeOverallWidth(payload.carriageway_width)),
                    girder_spacing |-> payload.girder_spacing,
                    girder_count |-> payload.girder_count,
                    deck_overhang |-> payload.deck_overhang]
      field == IF payload.changed_field \in GeometryFields
               THEN payload.changed_field ELSE "null"
  IN  {[geometry |-> autoAdjustGeometry(payload.carriageway_width, submitted, field),
        errors |-> EmptyRecord,
        warnings |-> detectGeometryIssues(payload.carriageway_width, submitted).warnings,
        is_valid |-> TRUE],
       [geometry |-> submitted,
        errors |-> Put(EmptyRecord, "span", "Outside supported range"),
        warnings |-> EmptyRecord,
        is_valid |-> FALSE]}

\* validateGeometry returns data (a 2xx body, or the body of an error
\* response): the try block of runGeometryValidation and its finally
ValidateGeometryReturns(req, data) ==
  /\ req \in inflight
  /\ geometryState' = data.geometry
  /\ geometryErrors' = data.errors
  /\ geometryWarnings' = data.warnings
  /\ geometryError' = ""
  /\ geometryLoading' = FALSE
  /\ inflight' = inflight \ {req}
  /\ event' = [kind |-> "response", id |-> req.id, stale |-> req.stale]
  /\ UNCHANGED <<call, result, basicInputs, timer, issued>>

\* mutant of ValidateGeometryThrows: the catch block also drops the issues
\* the local engine reported
ValidateGeometryThrows_DropsLocalIssues(req) ==
  /\ req \in inflight
  /\ geometryErrors' = EmptyRecord
  /\ geometryWarnings' = EmptyRecord
  /\ geometryError' = "Geometry validation failed."
  /\ geometryLoading' = FALSE
  /\ inflight' = inflight \ {req}
  /\ event' = [kind |-> "failure", id |-> req.id, stale |-> req.stale]
  /\ UNCHANGED <<call, result, basicInputs, geometryState, timer, issued>>

\* validateGeometry throws (no response at all): the catch block of
\* runGeometryValidation and its finally
ValidateGeometryThrows(req) ==
  /\ req \in inflight
  /\ geometryError' = "Geometry validation failed."
  /\ geometryLoading' = FALSE
  /\ inflight' = inflight \ {req}
  /\ event' = [kind |-> "failure", id |-> req.id, stale |-> req.stale]
  /\ UNCHANGED <<call, result, basicInputs, geometryState, geometryErrors,
                 geometryWarnings, timer, issued>>

Init ==
  /\ call = [carriagewayWidth |-> INITIAL_BASIC_INPUTS.carriagewayWidth,
             current |-> deriveGeometrySeed(INITIAL_BASIC_INPUTS.carriagewayWidth),
             field |-> "null", value |-> ValueAt(1)]
  /\ result = NoResult
  /\ AppInit

Edit == \E i \in EditIndices : handleGeometryFieldChange(EditAt(i).field, EditAt(i).value)
BasicInput ==
  \E field \in {"span", "carriagewayWidth", "skewAngle"} :
    \E nextValue \in BasicInputValues(field) : handleBasicInputChange(field, nextValue)
Returns == \E req \in inflight : \E data \in ServerResponses(req.payload) :
             ValidateGeometryReturns(req, data)
Throws == \E req \in inflight : ValidateGeometryThrows(req)

Next == Edit \/ TimerFires \/ BasicInput \/ Returns \/ Throws

Spec == Init /\ [][Next]_vars

\* ==================================================== claims on the form
\* what the local engine and the validation responses write
committed == <<geometryState, geometryErrors, geometryWarnings>>

\* C6: a validation response that arrives for a request issued before a
\* newer local geometry edit or a newer request is discarded: geometryState,
\* geometryErrors and geometryWarnings keep their values.
C6_StaleResponseDiscarded ==
  [][(event'.kind = "response" /\ event'.stale /\ inflight' # inflight)
       => committed' = committed]_vars

\* validation requests outstanding: behind the debounce timer or in flight
Outstanding == Cardinality(inflight) + (IF timer.armed THEN 1 ELSE 0)

\* C7: at any time at most one authoritative validation request is
\* outstanding, pending behind the debounce timer or in flight.
C7_AtMostOneOutstanding == Outstanding <= 1

C14_SeedOverhangHalfMetre ==
  event.kind = "mount" =>
    geometryState = [overall_width |-> 13500, girder_count |-> 4,
                     girder_spacing |-> 2500, deck_overhang |-> 500]

\* C14 amended: the form-load seed geometry for carriagewayWidth = 8.5 is
\* overall_width 13.5, girder_count 4, girder_spacing 2.5 and deck_overhang
\* 1.8, which is (13.5 - 4 x 2.5) / 2 = 1.75 rounded to one decimal.
C14_SeedOverhangFromWidth ==
  event.kind = "mount" =>
    geometryState = [overall_width |-> 13500, girder_count |-> 4,
                     girder_spacing |-> 2500, deck_overhang |-> 1800]

\* C14 witness: the form as mounted with carriagewayWidth 8.5; the first
\* validation request carries the seed's overhang of 1.8
C14_Witness ==
  /\ event.kind = "mount"
  /\ basicInputs.carriagewayWidth = 8500
  /\ geometryState.deck_overhang = 1800
  /\ \E req \in inflight : req.id = 1 /\ req.payload.deck_overhang = 1800

\* C28: geometryLoading is true whenever at least one validation request is
\* in flight: with overlapping requests, the completion of one does not clear
\* the flag while another still awaits its response.
C28_LoadingWhileInFlight == inflight # {} => geometryLoading

\* C29: handleGeometryFieldChange schedules a validation if and only if the
\* local result is valid; the scheduled request carries the solver's adjusted
\* geometry and the edited field; a rejected edit schedules nothing and
\* leaves a validation pending from an earlier accepted edit in place.
C29_ValidEditSchedulesAdjusted ==
  [][/\ event'.kind = "edit"
          => IF result'.out.isValid
             THEN /\ timer'.armed
                  /\ timer'.nextGeometry = result'.out.geometry
                  /\ timer'.changedField = call'.field
             ELSE timer' = timer
     /\ (timer'.armed /\ timer' # timer)
          => (event'.kind = "edit" /\ result'.out.isValid)
     /\ (event'.kind = "timer" /\ timer.armed /\ issued' = issued + 1)
          => \E req \in inflight' :
               /\ req.id = issued'
               /\ req.payload.girder_spacing = timer.nextGeometry.girder_spacing
               /\ req.payload.girder_count = timer.nextGeometry.girder_count
               /\ req.payload.deck_overhang = timer.nextGeometry.deck_overhang
               /\ req.payload.changed_field = timer.changedField]_vars

\* C29 witness: the timer of an accepted edit has fired; the request in
\* flight carries the adjusted geometry, which is neither the geometry before
\* the edit nor the raw candidate, and the edited field
C29_Witness ==
  /\ event.kind = "timer"
  /\ result.op = "resolve"
  /\ result.out.isValid
  /\ result.out.geometry # call.current
  /\ result.out.geometry # result.out.raw
  /\ \E req \in inflight :
       /\ ~req.stale
       /\ req.payload.girder_spacing = result.out.geometry.girder_spacing
       /\ req.payload.girder_count = result.out.geometry.girder_count
       /\ req.payload.deck_overhang = result.out.geometry.deck_overhang
       /\ req.payload.changed_field = call.field

====
